---- MODULE Spec2Model ----
(***************************************************************************)
(* Model of PortHandlerCAN (python/src/dynamixel_sdk/port_handler_can.py),  *)
(* the transport for a Waveshare WS-TTL-CAN converter in transparent mode, *)
(* together with the base transport (PortHandler) it extends and the       *)
(* serial channel (serial.Serial) both of them drive.                      *)
(*                                                                         *)
(* A "world" is a record [port, chan, last]:                               *)
(*   port  the fields of one PortHandlerCAN instance,                      *)
(*   chan  the serial device behind it: the handles that are open, how     *)
(*         many were ever allocated, the driver's receive queue, and the   *)
(*         settings the most recent handle was created with,               *)
(*   last  what the most recent call did: its result, the calls it made on *)
(*         the channel and the lines it printed.                           *)
(* Every method is an operator from a world (and its inputs) to a world.   *)
(*                                                                         *)
(* Two worlds run side by side, portHandler and twin: they receive the     *)
(* same calls and the same channel behaviour and are configured alike      *)
(* except for the debug flag, which is set independently on each.          *)
(*                                                                         *)
(* Times are fixed point: tx_time_per_byte is held in units of 10^-6 ms,   *)
(* so (1000.0 / baudrate) * 10.0 is ((1000 * 10^6) \div baudrate) * 10.    *)
(***************************************************************************)
EXTENDS Integers, Sequences, FiniteSets, TLC

VARIABLES portHandler, twin

vars == <<portHandler, twin>>

\* ------------------------------------------------------------------ bounds

\* Serial handles that may be allocated in one run.
MaxHandles == 3

\* Longest packet given to writePort (longer than one CAN frame's payload).
MaxPacketLen == 9

\* Most bytes the bridge delivers in one burst.
MaxRx == 2

\* --------------------------------------------------------------- constants

DEFAULT_BAUDRATE == 1000000

DEFAULT_CAN_ID == 96

CAN_MAX_DATA_SIZE == 8

\* self.ser before the first serial.Serial() is created.
None == 0

DEVICENAME == "/dev/ttyUSB0"

\* Rates the channel supports, and the rates a caller may request.
SupportedRates == {9600, 57600, 1000000}

RequestedRates == SupportedRates \cup {12345}

\* ----------------------------------------------------------------- helpers

Min(a, b) == IF a < b THEN a ELSE b

Max(a, b) == IF a > b THEN a ELSE b

Take(s, n) == SubSeq(s, 1, Min(n, Len(s)))

Drop(s, n) == SubSeq(s, Min(n, Len(s)) + 1, Len(s))

\* What a call leaves in `last`.
Call(op, arg, pre, status, value, io, out) ==
    [op |-> op, via |-> op, arg |-> arg, pre_is_open |-> pre.port.is_open,
     pre_ser |-> pre.port.ser, pre_open |-> pre.chan.open,
     pre_allocated |-> pre.chan.allocated,
     status |-> status, value |-> value, io |-> io, out |-> out]

\* ------------------------------------------------------------- hex tracing

HexDigits == <<"0", "1", "2", "3", "4", "5", "6", "7",
               "8", "9", "A", "B", "C", "D", "E", "F">>

\* Mutant: f'{b:X}', no zero padding.
Format02X_noPad(b) ==
    IF b < 16 THEN <<HexDigits[b + 1]>>
    ELSE <<HexDigits[(b \div 16) + 1], HexDigits[(b % 16) + 1]>>

\* f'{b:02X}' for a byte b: two uppercase hexadecimal digits.
Format02X(b) == <<HexDigits[(b \div 16) + 1], HexDigits[(b % 16) + 1]>>

\* sep.join(parts), parts a sequence of character sequences.
RECURSIVE Join(_, _)
Join(sep, parts) ==
    IF Len(parts) = 0 THEN <<>>
    ELSE IF Len(parts) = 1 THEN parts[1]
    ELSE parts[1] \o sep \o Join(sep, Tail(parts))

\* ' '.join([f'{b:02X}' for b in data])
HexDump(data) == Join(<<" ">>, [i \in 1..Len(data) |-> Format02X(data[i])])

\* One printed line: a fixed label followed by formatted text.
Line(label, text) == [label |-> label, text |-> text]

\* ------------------------------------------------- the channel (serial.Serial)

\* What the environment decides for one setupPort: whether the device can be
\* claimed, how clearing the receive queue ends (SerialException is caught by
\* setupPort, any other error is not), and the bytes already queued by the
\* driver when the handle is created.
SetupEnv ==
    { [claim |-> "SerialException", reset |-> "ok", stale |-> <<>>] }
    \cup [claim : {"ok"},
          reset : {"ok", "SerialException", "termios.error"},
          stale : {<<>>, <<170>>}]

NoSettings == [port |-> "", baudrate |-> 0, bytesize |-> 0, parity |-> "",
               stopbits |-> 0, timeout |-> -1]

\* self.ser = serial.Serial(port=self.port_name, baudrate=self.baudrate,
\*     bytesize=EIGHTBITS, parity=PARITY_NONE, stopbits=STOPBITS_ONE, timeout=0)
\* when the device can be claimed: a handle never used before, now open.
serial_Serial(w, stale) ==
    LET h == w.chan.allocated + 1
    IN  [w EXCEPT !.port.ser = h,
                  !.chan.open = @ \cup {h},
                  !.chan.allocated = h,
                  !.chan.rx = stale,
                  !.chan.settings =
                      [port |-> w.port.port_name, baudrate |-> w.port.baudrate,
                       bytesize |-> 8, parity |-> "N", stopbits |-> 1,
                       timeout |-> 0]]

\* Mutant: the receive queue is left as the driver had it.
reset_input_buffer_skipped(w) == w

\* self.ser.reset_input_buffer(): discards what the driver has queued.
reset_input_buffer(w) == [w EXCEPT !.chan.rx = <<>>]

\* (1000.0 / self.baudrate) * 10.0, in units of 10^-6 ms.
TxTimePerByte(baudrate) == ((1000 * 1000000) \div baudrate) * 10

\* ------------------------------------------- the base transport (PortHandler)

\* PortHandler.__init__(port_name)
PortHandler(port_name) ==
    [is_open |-> FALSE, baudrate |-> DEFAULT_BAUDRATE, tx_time_per_byte |-> 0,
     port_name |-> port_name, ser |-> None]

\* Mutant: close releases the handle whether or not the transport is open.
closePort_unguarded(w) ==
    [w EXCEPT !.port.is_open = FALSE,
              !.port.ser = None,
              !.chan.open = @ \ {w.port.ser},
              !.chan.rx = <<>>,
              !.last = Call("closePort", None, w, "return", "None",
                            <<[call |-> "close", handle |-> w.port.ser]>>, <<>>)]

\* PortHandler.closePort(): releases the channel; a no-op when already closed.
closePort(w) ==
    IF w.port.is_open
    THEN [w EXCEPT !.port.is_open = FALSE,
                   !.chan.open = @ \ {w.port.ser},
                   !.chan.rx = <<>>,
                   !.last = Call("closePort", None, w, "return", "None",
                                 <<[call |-> "close", handle |-> w.port.ser]>>,
                                 <<>>)]
    ELSE [w EXCEPT !.last = Call("closePort", None, w, "return", "None",
                                 <<>>, <<>>)]

\* PortHandler.readPort(length): up to length bytes of what is queued, at once;
\* an explicit failure, and no channel call, when the transport is closed.
PortHandler_readPort(w, length) ==
    IF ~w.port.is_open
    THEN [w EXCEPT !.last = Call("readPort", length, w, "raise",
                                 "PortNotOpenError", <<>>, <<>>)]
    ELSE LET data == Take(w.chan.rx, length)
         IN  [w EXCEPT !.chan.rx = Drop(@, length),
                       !.last = Call("readPort", length, w, "return", data,
                                     <<[call |-> "read", size |-> length,
                                        data |-> data]>>, <<>>)]

\* PortHandler.writePort(packet): hands the bytes to the channel and returns the
\* count it accepted (all of them, or one fewer on a transient medium
\* condition); an
\* explicit failure, and no channel call, when the transport is closed.
PortHandler_writePort(w, packet, transient) ==
    IF ~w.port.is_open
    THEN [w EXCEPT !.last = Call("writePort", packet, w, "raise",
                                 "PortNotOpenError", <<>>, <<>>)]
    ELSE LET count == IF transient THEN Max(0, Len(packet) - 1) ELSE Len(packet)
         IN  [w EXCEPT !.last = Call("writePort", packet, w, "return", count,
                                     <<[call |-> "write", data |-> packet,
                                        count |-> count]>>, <<>>)]

\* --------------------------------------- the CAN transport (PortHandlerCAN)

\* PortHandlerCAN.__init__(port_name, can_id, extended_id, can_baudrate)
PortHandlerCAN(port_name, can_id, extended_id, can_baudrate) ==
    [is_open |-> PortHandler(port_name).is_open,
     baudrate |-> PortHandler(port_name).baudrate,
     tx_time_per_byte |-> PortHandler(port_name).tx_time_per_byte,
     port_name |-> PortHandler(port_name).port_name,
     ser |-> PortHandler(port_name).ser,
     can_id |-> can_id, extended_id |-> extended_id,
     can_baudrate |-> can_baudrate, recv_buffer |-> <<>>, debug |-> FALSE]

\* setDebug(enable)
setDebug(w, enable) ==
    [w EXCEPT !.port.debug = enable,
              !.last = Call("setDebug", enable, w, "return", "None", <<>>, <<>>)]

\* The lines setupPort prints in debug mode once the port is set up.
PortConfiguration(port) ==
    IF port.debug
    THEN << Line("[DEBUG] Port Configuration:", <<>>),
            Line("  - Serial Port: ", port.port_name),
            Line("  - Serial Baudrate: ", port.baudrate),
            Line("  - CAN ID: 0x", <<port.can_id,
                 IF port.extended_id THEN " (Extended)" ELSE " (Standard)">>),
            Line("  - CAN Baudrate: ", port.can_baudrate),
            Line("Note: Make sure the WS-TTL-CAN converter is configured with these settings", <<>>) >>
    ELSE <<>>

\* Mutant: once the port is set up, the bridge's CAN baud rate is stored as the
\* serial baud rate.
setupPort_configure_adoptsCanBaud(w, cflag_baud, s, io, env) ==
    LET o   == [s EXCEPT !.port.is_open = TRUE]
        io2 == io \o <<[call |-> "Serial", handle |-> o.port.ser]>>
        io3 == io2 \o <<[call |-> "reset_input_buffer", handle |-> o.port.ser]>>
    IN  IF env.reset = "SerialException"
        THEN [o EXCEPT !.last = Call("setupPort", cflag_baud, w, "return", FALSE,
                  io3, <<Line("Error opening port: ", env.reset)>>)]
        ELSE IF env.reset # "ok"
        THEN [o EXCEPT !.last = Call("setupPort", cflag_baud, w, "raise",
                  env.reset, io3, <<>>)]
        ELSE LET r == reset_input_buffer(o)
                 t == [r EXCEPT !.port.baudrate = r.port.can_baudrate,
                                !.port.tx_time_per_byte =
                                    TxTimePerByte(r.port.can_baudrate)]
             IN  [t EXCEPT !.last = Call("setupPort", cflag_baud, w, "return",
                      TRUE, io3, PortConfiguration(t.port))]

\* The part of setupPort that follows a successful serial.Serial(): the open
\* flag is raised first, then the receive queue is cleared and the per-byte
\* time computed; a failure in between leaves the flag raised.
setupPort_configure(w, cflag_baud, s, io, env) ==
    LET o   == [s EXCEPT !.port.is_open = TRUE]
        io2 == io \o <<[call |-> "Serial", handle |-> o.port.ser]>>
        io3 == io2 \o <<[call |-> "reset_input_buffer", handle |-> o.port.ser]>>
    IN  IF env.reset = "SerialException"
        THEN [o EXCEPT !.last = Call("setupPort", cflag_baud, w, "return", FALSE,
                  io3, <<Line("Error opening port: ", env.reset)>>)]
        ELSE IF env.reset # "ok"
        THEN [o EXCEPT !.last = Call("setupPort", cflag_baud, w, "raise",
                  env.reset, io3, <<>>)]
        ELSE LET r == reset_input_buffer(o)
                 t == [r EXCEPT !.port.tx_time_per_byte =
                                    TxTimePerByte(r.port.baudrate)]
             IN  [t EXCEPT !.last = Call("setupPort", cflag_baud, w, "return",
                      TRUE, io3, PortConfiguration(t.port))]

\* Mutant: the open flag is raised before the device is claimed.
setupPort_flagFirst(w, cflag_baud, env) ==
    LET c  == IF w.port.is_open THEN closePort(w) ELSE w
        io == IF w.port.is_open THEN c.last.io ELSE <<>>
    IN  IF env.claim # "ok"
        THEN [c EXCEPT !.port.is_open = TRUE,
                  !.last = Call("setupPort", cflag_baud, w, "return", FALSE,
                  io \o <<[call |-> "Serial", handle |-> None]>>,
                  <<Line("Error opening port: ", env.claim)>>)]
        ELSE setupPort_configure(w, cflag_baud, serial_Serial(c, env.stale),
                                 io, env)

\* Mutant: the handle held is not closed before the port is set up again.
setupPort_noClose(w, cflag_baud, env) ==
    IF env.claim # "ok"
    THEN [w EXCEPT !.last = Call("setupPort", cflag_baud, w, "return", FALSE,
              <<[call |-> "Serial", handle |-> None]>>,
              <<Line("Error opening port: ", env.claim)>>)]
    ELSE setupPort_configure(w, cflag_baud, serial_Serial(w, env.stale),
                             <<>>, env)

\* Mutant: a device that cannot be claimed is tried a second time.
setupPort_retries(w, cflag_baud, env) ==
    LET c  == IF w.port.is_open THEN closePort(w) ELSE w
        io == IF w.port.is_open THEN c.last.io ELSE <<>>
    IN  IF env.claim # "ok"
        THEN [c EXCEPT !.last = Call("setupPort", cflag_baud, w, "return", FALSE,
                  io \o <<[call |-> "Serial", handle |-> None],
                          [call |-> "Serial", handle |-> None]>>,
                  <<Line("Error opening port: ", env.claim)>>)]
        ELSE setupPort_configure(w, cflag_baud, serial_Serial(c, env.stale),
                                 io, env)

\* setupPort(cflag_baud)
setupPort(w, cflag_baud, env) ==
    LET c  == IF w.port.is_open THEN closePort(w) ELSE w
        io == IF w.port.is_open THEN c.last.io ELSE <<>>
    IN  IF env.claim # "ok"
        THEN [c EXCEPT !.last = Call("setupPort", cflag_baud, w, "return", FALSE,
                  io \o <<[call |-> "Serial", handle |-> None]>>,
                  <<Line("Error opening port: ", env.claim)>>)]
        ELSE setupPort_configure(w, cflag_baud, serial_Serial(c, env.stale),
                                 io, env)

\* PortHandler.setBaudRate(baudrate): fails for a rate the channel does not
\* support; otherwise stores the rate and sets the port up again.
setBaudRate(w, baudrate, env) ==
    IF baudrate \notin SupportedRates
    THEN [w EXCEPT !.last = Call("setBaudRate", baudrate, w, "return", FALSE,
                                 <<>>, <<>>)]
    ELSE LET r == setupPort([w EXCEPT !.port.baudrate = baudrate], baudrate, env)
         IN  [r EXCEPT !.last.via = "setBaudRate", !.last.arg = baudrate]

\* PortHandler.openPort(): sets the port up at the rate already stored.
openPort(w, env) ==
    LET r == setupPort(w, w.port.baudrate, env)
    IN  [r EXCEPT !.last.via = "openPort"]

\* A packet is a bytes object or a list of integers.
IsByte(b) == b \in 0..255

\* bytearray(packet) for a list: its elements as bytes, in order.
bytearray(data) == [i \in 1..Len(data) |-> data[i] % 256]

\* Mutant: a packet longer than one CAN frame's payload is written frame by
\* frame.
writePort_chunked(w, packet, transient) ==
    LET data == IF packet.kind = "list" THEN bytearray(packet.data)
                ELSE packet.data
        b1   == PortHandler_writePort(w, Take(data, CAN_MAX_DATA_SIZE), FALSE)
        b2   == PortHandler_writePort(w, Drop(data, CAN_MAX_DATA_SIZE), transient)
    IN  IF Len(data) <= CAN_MAX_DATA_SIZE \/ b1.last.status = "raise"
        THEN [PortHandler_writePort(w, data, transient) EXCEPT !.last.arg = packet]
        ELSE [b2 EXCEPT !.last.arg = packet,
                        !.last.io = b1.last.io \o @,
                        !.last.value = b1.last.value + @]

\* Mutant: in debug mode the packet is traced and its length returned without
\* the base write being made.
writePort_debugReturnsEarly(w, packet, transient) ==
    LET data == IF packet.kind = "list" THEN bytearray(packet.data)
                ELSE packet.data
        b    == PortHandler_writePort(w, data, transient)
    IN  IF w.port.debug /\ b.last.status = "return"
        THEN [w EXCEPT !.last = Call("writePort", packet, w, "return", Len(data),
                  <<>>, <<Line("[DEBUG] Writing packet: ", HexDump(data))>>)]
        ELSE [b EXCEPT !.last.arg = packet]

\* Mutant: the packet is traced whether or not debug is set.
writePort_alwaysTraces(w, packet, transient) ==
    IF packet.kind = "list" /\ \E i \in 1..Len(packet.data) : ~IsByte(packet.data[i])
    THEN [w EXCEPT !.last = Call("writePort", packet, w, "raise", "ValueError",
                                 <<>>, <<>>)]
    ELSE LET data == IF packet.kind = "list" THEN bytearray(packet.data)
                     ELSE packet.data
             b    == PortHandler_writePort(w, data, transient)
         IN  [b EXCEPT !.last.arg = packet,
                       !.last.out =
                           <<Line("[DEBUG] Writing packet: ", HexDump(data))>> \o @]

\* writePort(packet)
writePort(w, packet, transient) ==
    IF packet.kind = "list" /\ \E i \in 1..Len(packet.data) : ~IsByte(packet.data[i])
    THEN [w EXCEPT !.last = Call("writePort", packet, w, "raise", "ValueError",
                                 <<>>, <<>>)]
    ELSE LET data  == IF packet.kind = "list" THEN bytearray(packet.data)
                      ELSE packet.data
             trace == IF w.port.debug
                      THEN <<Line("[DEBUG] Writing packet: ", HexDump(data))>>
                      ELSE <<>>
             b     == PortHandler_writePort(w, data, transient)
         IN  [b EXCEPT !.last.arg = packet, !.last.out = trace \o @]

\* Mutant: what is read is accumulated in _recv_buffer and handed over only
\* once `length` bytes are there.
readPort_buffered(w, length) ==
    LET b   == PortHandler_readPort(w, length)
        acc == w.port.recv_buffer \o b.last.value
    IN  IF b.last.status = "raise" THEN b
        ELSE IF Len(acc) >= length
        THEN [b EXCEPT !.port.recv_buffer = <<>>, !.last.value = acc]
        ELSE [b EXCEPT !.port.recv_buffer = acc, !.last.value = <<>>]

\* Mutant: a failed base read is caught and reported as an empty read.
readPort_swallowsFailure(w, length) ==
    LET b == PortHandler_readPort(w, length)
    IN  IF b.last.status = "raise"
        THEN [b EXCEPT !.last.status = "return", !.last.value = <<>>]
        ELSE b

\* readPort(length)
readPort(w, length) ==
    LET b == PortHandler_readPort(w, length)
    IN  IF b.last.status = "raise" THEN b
        ELSE [b EXCEPT !.last.out =
                  IF w.port.debug /\ Len(b.last.value) > 0
                  THEN <<Line("[DEBUG] Read data: ", HexDump(b.last.value))>>
                  ELSE <<>>]

\* Mutant: besides printing them, the settings are sent to the bridge when the
\* port is open.
printCANConfInstructions_applies(w) ==
    LET sent == <<w.port.can_id>>
    IN  [w EXCEPT !.chan.rx = IF w.port.is_open THEN <<>> ELSE @,
                  !.last = Call("printCANConfInstructions", None, w, "return",
                      "None",
                      IF w.port.is_open
                      THEN <<[call |-> "write", data |-> sent, count |-> 1]>>
                      ELSE <<>>,
                      <<Line("   - Set 'CAN ID' to 0x", w.port.can_id)>>)]

\* printCANConfInstructions(): the settings to apply with the vendor's tool.
printCANConfInstructions(w) ==
    [w EXCEPT !.last = Call("printCANConfInstructions", None, w, "return", "None",
        <<>>,
        << Line("   - Set 'Working Mode' to 'Transparent Conversion'", <<>>),
           Line("   - Set 'CAN Baudrate' to ", w.port.can_baudrate),
           Line("   - Set 'Serial Baudrate' to ", w.port.baudrate),
           Line("   - Set 'Serial Data Bit' to 8", <<>>),
           Line("   - Set 'Serial Stop Bit' to 1", <<>>),
           Line("   - Set 'Serial Parity Bit' to None", <<>>),
           Line("   - Set 'CAN ID' to 0x", w.port.can_id),
           Line("   - Set 'Frame Type' to ",
                IF w.port.extended_id THEN "Extended Frame"
                ELSE "Standard Frame") >>)]

\* PortHandlerForWaveshareCAN(port_name, can_id, extended_id, can_baudrate, debug)
PortHandlerForWaveshareCAN(port_name, can_id, extended_id, can_baudrate, debug) ==
    LET w == [port |-> PortHandlerCAN(port_name, can_id, extended_id, can_baudrate),
              chan |-> [open |-> {}, allocated |-> 0, rx |-> <<>>,
                        settings |-> NoSettings],
              last |-> [op |-> "__init__", via |-> "__init__", arg |-> None,
                        pre_is_open |-> FALSE, pre_ser |-> None, pre_open |-> {},
                        pre_allocated |-> 0,
                        status |-> "return", value |-> "None", io |-> <<>>,
                        out |-> <<>>]]
        d == setDebug(w, debug)
    IN  [d EXCEPT !.last.op = "__init__", !.last.via = "__init__"]

\* ------------------------------------------------------------------ inputs

\* The bytes of the packets written: distinct, so that order shows.
PacketByte(i) == IF i = 1 THEN 1 ELSE IF i = 2 THEN 2 ELSE IF i = 3 THEN 255
                 ELSE (i * 29) % 256

PacketData == { [i \in 1..n |-> PacketByte(i)] : n \in {0, 3, MaxPacketLen} }

\* Packets: bytes objects, lists of bytes, and a list holding a value that is
\* no byte.
Packets ==
    { [kind |-> k, data |-> d] : k \in {"bytes", "list"}, d \in PacketData }
    \cup { [kind |-> "list", data |-> <<1, 256>>] }

\* What arrives from the bridge: a burst of distinct bytes, so that order shows.
RxByte(i) == IF i = 1 THEN 255 ELSE (i * 5) % 256

RxBursts == { [i \in 1..n |-> RxByte(i)] : n \in 1..MaxRx }

\* ----------------------------------------------------------- specification

Init ==
    \E d1 \in BOOLEAN, d2 \in BOOLEAN :
        /\ portHandler = PortHandlerForWaveshareCAN(DEVICENAME, DEFAULT_CAN_ID,
                             FALSE, 1000000, d1)
        /\ twin = PortHandlerForWaveshareCAN(DEVICENAME, DEFAULT_CAN_ID,
                             FALSE, 1000000, d2)

OpenPort ==
    /\ portHandler.chan.allocated < MaxHandles
    /\ \E env \in SetupEnv :
        /\ portHandler' = openPort(portHandler, env)
        /\ twin' = openPort(twin, env)

SetBaudRate ==
    /\ portHandler.chan.allocated < MaxHandles
    /\ \E baudrate \in RequestedRates, env \in SetupEnv :
        /\ portHandler' = setBaudRate(portHandler, baudrate, env)
        /\ twin' = setBaudRate(twin, baudrate, env)

ClosePort ==
    /\ portHandler' = closePort(portHandler)
    /\ twin' = closePort(twin)

WritePort ==
    \E packet \in Packets, transient \in BOOLEAN :
        /\ portHandler' = writePort(portHandler, packet, transient)
        /\ twin' = writePort(twin, packet, transient)

ReadPort ==
    \E length \in 0..(MaxRx + 1) :
        /\ portHandler' = readPort(portHandler, length)
        /\ twin' = readPort(twin, length)

SetDebug ==
    \E e1 \in BOOLEAN, e2 \in BOOLEAN :
        /\ portHandler' = setDebug(portHandler, e1)
        /\ twin' = setDebug(twin, e2)

PrintCANConfInstructions ==
    /\ portHandler' = printCANConfInstructions(portHandler)
    /\ twin' = printCANConfInstructions(twin)

\* The bridge delivers a burst while a handle is open on the device and its
\* receive queue has been drained.
Arrived(w, burst) ==
    [w EXCEPT !.chan.rx = @ \o burst, !.last.op = "idle", !.last.via = "idle"]

Deliver ==
    /\ portHandler.chan.open # {}
    /\ portHandler.chan.rx = <<>>
    /\ \E burst \in RxBursts :
        /\ portHandler' = Arrived(portHandler, burst)
        /\ twin' = Arrived(twin, burst)

Next ==
    \/ OpenPort
    \/ SetBaudRate
    \/ ClosePort
    \/ WritePort
    \/ ReadPort
    \/ SetDebug
    \/ PrintCANConfInstructions
    \/ Deliver

Spec == Init /\ [][Next]_vars

\* ------------------------------------------------------------------ claims

\* The transport was closed when the last call was made.
WasClosed(w) == ~w.last.pre_is_open

\* The last call tried to claim the device and could not.
ClaimFailed(w) ==
    /\ w.last.op = "setupPort"
    /\ \E i \in 1..Len(w.last.io) :
           w.last.io[i].call = "Serial" /\ w.last.io[i].handle = None

\* The last call claimed the device.
ClaimSucceeded(w) ==
    /\ w.last.op = "setupPort"
    /\ \E i \in 1..Len(w.last.io) :
           w.last.io[i].call = "Serial" /\ w.last.io[i].handle # None

\* t is (1000.0 / r) * 10.0 in units of 10^-6 ms: ten times the whole number
\* of such units in 1000 / r.
IsMsecPerByte(t, r) ==
    /\ t % 10 = 0
    /\ (t \div 10) * r <= 1000 * 1000000
    /\ 1000 * 1000000 < ((t \div 10) + 1) * r

\* C1: a readPort or writePort made while the transport is closed (never
\* opened, after a failed open, after closePort) fails explicitly, by raising,
\* and makes no call on the channel, which it leaves as it was.
C1_ClosedIoFailsExplicitly ==
    [][ (portHandler'.last.op \in {"readPort", "writePort"}
            /\ ~portHandler.port.is_open)
        => /\ portHandler'.last.status = "raise"
           /\ portHandler'.last.io = <<>>
           /\ portHandler'.chan = portHandler.chan ]_vars

\* C1 witness: a read attempted after an opened transport was closed has raised.
C1_Witness ==
    /\ portHandler.last.op = "readPort"
    /\ WasClosed(portHandler)
    /\ portHandler.last.pre_ser # None
    /\ portHandler.last.status = "raise"

\* C2: a setupPort that cannot claim the device, made from Open or from
\* Closed, returns False, does not raise, and leaves the transport closed.
C2_ClaimFailureLeavesClosed ==
    ClaimFailed(portHandler)
    => /\ portHandler.last.status = "return"
       /\ portHandler.last.value = FALSE
       /\ ~portHandler.port.is_open

\* C2 witness: the device could not be claimed by a setupPort made while open.
C2_Witness ==
    /\ ClaimFailed(portHandler)
    /\ portHandler.last.pre_is_open
    /\ ~portHandler.port.is_open

\* The settings setupPort gives the handle it creates: 8 data bits, no parity,
\* 1 stop bit, a read timeout of zero, at the transport's baud rate.
FixedFraming(w) ==
    /\ w.chan.settings.port = w.port.port_name
    /\ w.chan.settings.baudrate = w.port.baudrate
    /\ w.chan.settings.bytesize = 8
    /\ w.chan.settings.parity = "N"
    /\ w.chan.settings.stopbits = 1
    /\ w.chan.settings.timeout = 0

\* The handle the transport holds was allocated by the last call and is the
\* only one open.
HoldsFreshHandle(w) ==
    /\ w.port.ser # None
    /\ w.port.ser > w.last.pre_allocated
    /\ w.chan.open = {w.port.ser}

\* C3: a setupPort made while open that claims the device closes the handle
\* held before allocating the new one, leaves no earlier handle open, and ends
\* open, with a fresh handle and the per-byte time of the current baud rate.
C3_ReopenReinitialises ==
    (ClaimSucceeded(portHandler) /\ portHandler.last.pre_is_open)
    => /\ portHandler.last.io[1] =
              [call |-> "close", handle |-> portHandler.last.pre_ser]
       /\ portHandler.last.io[2].call = "Serial"
       /\ portHandler.last.pre_ser \notin portHandler.chan.open
       /\ HoldsFreshHandle(portHandler)
       /\ portHandler.port.is_open
       /\ IsMsecPerByte(portHandler.port.tx_time_per_byte,
                        portHandler.port.baudrate)

\* C4: closePort on a transport that is already closed (never opened, closed
\* before, or left closed by a failed open) returns normally and changes
\* neither the transport's fields nor the channel.
C4_CloseWhenClosedIsNoOp ==
    [][ (portHandler'.last.op = "closePort" /\ ~portHandler.port.is_open)
        => /\ portHandler'.last.status = "return"
           /\ portHandler'.last.io = <<>>
           /\ portHandler'.port = portHandler.port
           /\ portHandler'.chan = portHandler.chan ]_vars

\* C4 witness: closePort has returned on a transport that was closed and still
\* refers to the handle it released earlier.
C4_Witness ==
    /\ portHandler.last.op = "closePort"
    /\ WasClosed(portHandler)
    /\ portHandler.last.status = "return"
    /\ portHandler.port.ser # None
    /\ portHandler.port.ser \notin portHandler.chan.open

\* C5: a setupPort that succeeds on a transport closed earlier runs the whole
\* setup: a handle never allocated before, the fixed framing, an empty receive
\* queue, the per-byte time of the current baud rate, and the transport open.
C5_ReopenAfterCloseRunsFullSetup ==
    (/\ portHandler.last.op = "setupPort"
     /\ WasClosed(portHandler)
     /\ portHandler.last.pre_ser # None
     /\ portHandler.last.status = "return"
     /\ portHandler.last.value = TRUE)
    => /\ HoldsFreshHandle(portHandler)
       /\ portHandler.port.ser # portHandler.last.pre_ser
       /\ FixedFraming(portHandler)
       /\ portHandler.chan.rx = <<>>
       /\ IsMsecPerByte(portHandler.port.tx_time_per_byte,
                        portHandler.port.baudrate)
       /\ portHandler.port.is_open

\* C5 witness: a second cycle: a closed transport that had been opened was
\* opened again, at a rate other than the default.
C5_Witness ==
    /\ portHandler.last.op = "setupPort"
    /\ WasClosed(portHandler)
    /\ portHandler.last.pre_ser # None
    /\ portHandler.last.status = "return"
    /\ portHandler.last.value = TRUE
    /\ portHandler.port.baudrate # DEFAULT_BAUDRATE
    /\ portHandler.port.ser > 1

\* C6: whenever the transport is open, tx_time_per_byte is
\* (1000.0 / baudrate) * 10.0 for the baud rate it holds.
C6_OpenImpliesTiming ==
    portHandler.port.is_open
    => IsMsecPerByte(portHandler.port.tx_time_per_byte, portHandler.port.baudrate)

\* Every element of the packet is a byte.
IsBytePacket(packet) ==
    \A i \in 1..Len(packet.data) : packet.data[i] \in 0..255

\* C7: writePort on an open transport, for a bytes object or a list of bytes
\* of any length, makes exactly one base write, of the packet's bytes in their
\* order, and returns the count that write returned.
C7_WriteForwardsUnmodified ==
    (/\ portHandler.last.op = "writePort"
     /\ portHandler.last.pre_is_open
     /\ IsBytePacket(portHandler.last.arg))
    => /\ portHandler.last.status = "return"
       /\ Len(portHandler.last.io) = 1
       /\ portHandler.last.io[1].call = "write"
       /\ portHandler.last.io[1].data = portHandler.last.arg.data
       /\ portHandler.last.value = portHandler.last.io[1].count

\* C7 witness: a list longer than one CAN frame's payload was written whole.
C7_Witness ==
    /\ portHandler.last.op = "writePort"
    /\ portHandler.last.pre_is_open
    /\ portHandler.last.arg.kind = "list"
    /\ IsBytePacket(portHandler.last.arg)
    /\ Len(portHandler.last.arg.data) > CAN_MAX_DATA_SIZE
    /\ Len(portHandler.last.io) = 1
    /\ portHandler.last.io[1].data = portHandler.last.arg.data
    /\ portHandler.last.value = Len(portHandler.last.arg.data)

\* C8: readPort(length) on an open transport returns what the one base read it
\* makes returned: the first min(length, available) bytes queued, in order,
\* the rest staying queued; nothing when nothing is queued; and nothing is
\* kept back in the transport's own buffer.
C8_ReadForwardsUnmodified ==
    [][ (portHandler'.last.op = "readPort" /\ portHandler.port.is_open)
        => /\ portHandler'.last.status = "return"
           /\ portHandler'.last.io =
                  << [call |-> "read", size |-> portHandler'.last.arg,
                      data |-> portHandler'.last.value] >>
           /\ Len(portHandler'.last.value) =
                  Min(portHandler'.last.arg, Len(portHandler.chan.rx))
           /\ portHandler'.last.value \o portHandler'.chan.rx
                  = portHandler.chan.rx
           /\ portHandler'.port.recv_buffer = <<>> ]_vars

\* C8 witness: one byte was asked for while more were queued, and the first
\* was returned.
C8_Witness ==
    /\ portHandler.last.op = "readPort"
    /\ portHandler.last.pre_is_open
    /\ portHandler.last.status = "return"
    /\ portHandler.last.arg = 1
    /\ portHandler.last.value = <<RxByte(1)>>
    /\ portHandler.chan.rx # <<>>

\* C9: two transports given the same calls and the same channel behaviour, and
\* differing only in their debug flags, agree on every field but the flag, on
\* the channel, and on each call's outcome, return value and channel calls.
C9_DebugHasNoEffect ==
    /\ [portHandler.port EXCEPT !.debug = FALSE] = [twin.port EXCEPT !.debug = FALSE]
    /\ portHandler.chan = twin.chan
    /\ portHandler.last.op = twin.last.op
    /\ portHandler.last.status = twin.last.status
    /\ portHandler.last.value = twin.last.value
    /\ portHandler.last.io = twin.last.io

\* C9 witness: a packet was written with tracing on in one transport only, and
\* only that one printed.
C9_Witness ==
    /\ portHandler.port.debug /\ ~twin.port.debug
    /\ portHandler.last.op = "writePort"
    /\ portHandler.last.status = "return"
    /\ Len(portHandler.last.arg.data) > 0
    /\ portHandler.last.out # <<>>
    /\ twin.last.out = <<>>

\* text is the hexadecimal dump of data: two uppercase digits for each byte,
\* in order, one space between neighbours.
IsHexDump(text, data) ==
    /\ Len(text) = IF Len(data) = 0 THEN 0 ELSE 3 * Len(data) - 1
    /\ \A i \in 1..Len(data) :
           /\ text[3 * i - 2] = HexDigits[(data[i] \div 16) + 1]
           /\ text[3 * i - 1] = HexDigits[(data[i] % 16) + 1]
           /\ i < Len(data) => text[3 * i] = " "

\* C10: with debug on, a write prints one trace line whose text is the hex dump
\* of the bytes written; for [0x01, 0x02, 0xFF] it is 01 02 FF.
C10_WriteTraceIsHexDump ==
    (/\ portHandler.last.op = "writePort"
     /\ portHandler.last.status = "return"
     /\ portHandler.port.debug)
    => /\ Len(portHandler.last.out) = 1
       /\ portHandler.last.out[1].label = "[DEBUG] Writing packet: "
       /\ IsHexDump(portHandler.last.out[1].text, portHandler.last.arg.data)
       /\ portHandler.last.arg.data = <<1, 2, 255>>
          => portHandler.last.out[1].text
                 = <<"0", "1", " ", "0", "2", " ", "F", "F">>

\* C10 witness: [0x01, 0x02, 0xFF] was written with debug on and traced as
\* 01 02 FF.
C10_Witness ==
    /\ portHandler.last.op = "writePort"
    /\ portHandler.last.status = "return"
    /\ portHandler.port.debug
    /\ portHandler.last.arg.data = <<1, 2, 255>>
    /\ portHandler.last.out[1].text = <<"0", "1", " ", "0", "2", " ", "F", "F">>

\* C11: writePort of an empty bytes object or an empty list on an open
\* transport returns 0, and prints nothing, except that with debug on it
\* prints the one trace line, with no bytes in it.
C11_EmptyWriteReturnsZero ==
    (/\ portHandler.last.op = "writePort"
     /\ portHandler.last.pre_is_open
     /\ portHandler.last.arg.data = <<>>)
    => /\ portHandler.last.status = "return"
       /\ portHandler.last.value = 0
       /\ portHandler.last.out =
              IF portHandler.port.debug
              THEN << [label |-> "[DEBUG] Writing packet: ", text |-> <<>>] >>
              ELSE <<>>

\* C11 witness: an empty list was written with debug on, on an open transport.
C11_Witness ==
    /\ portHandler.last.op = "writePort"
    /\ portHandler.last.pre_is_open
    /\ portHandler.last.arg = [kind |-> "list", data |-> <<>>]
    /\ portHandler.port.debug
    /\ portHandler.last.value = 0
    /\ Len(portHandler.last.out) = 1

\* C12 as claimed: no call changes the channel identifier, the baud rate, the
\* CAN identifier, the frame-ID width selector or the CAN bus baud rate.
C12_ConfigurationNeverChanges ==
    [][ /\ portHandler'.port.port_name = portHandler.port.port_name
        /\ portHandler'.port.baudrate = portHandler.port.baudrate
        /\ portHandler'.port.can_id = portHandler.port.can_id
        /\ portHandler'.port.extended_id = portHandler.port.extended_id
        /\ portHandler'.port.can_baudrate = portHandler.port.can_baudrate ]_vars

\* C12, amended: no call changes the channel identifier, the CAN identifier,
\* the frame-ID width selector or the CAN bus baud rate; the baud rate is
\* changed only by setBaudRate, to the supported rate it was given.
C12_OnlySetBaudRateChangesConfiguration ==
    [][ /\ portHandler'.port.port_name = portHandler.port.port_name
        /\ portHandler'.port.can_id = portHandler.port.can_id
        /\ portHandler'.port.extended_id = portHandler.port.extended_id
        /\ portHandler'.port.can_baudrate = portHandler.port.can_baudrate
        /\ portHandler'.port.baudrate # portHandler.port.baudrate
           => /\ portHandler'.last.via = "setBaudRate"
              /\ portHandler'.last.arg = portHandler'.port.baudrate
              /\ portHandler'.port.baudrate \in SupportedRates ]_vars

\* C12 witness: setBaudRate has moved the baud rate away from the one the
\* transport was constructed with; the CAN settings are as constructed.
C12_Witness ==
    /\ portHandler.last.via = "setBaudRate"
    /\ portHandler.port.baudrate = portHandler.last.arg
    /\ portHandler.port.baudrate # DEFAULT_BAUDRATE
    /\ portHandler.port.port_name = DEVICENAME
    /\ portHandler.port.can_id = DEFAULT_CAN_ID
    /\ portHandler.port.extended_id = FALSE
    /\ portHandler.port.can_baudrate = 1000000

\* C13: printCANConfInstructions, on a closed or an open transport, makes no
\* call on the channel and changes neither the channel nor any field of the
\* transport (open flag, handle, baud rate, per-byte time, CAN settings, debug
\* flag); it only prints.
C13_InstructionsAreAdvisoryOnly ==
    [][ portHandler'.last.op = "printCANConfInstructions"
        => /\ portHandler'.last.status = "return"
           /\ portHandler'.last.io = <<>>
           /\ portHandler'.chan = portHandler.chan
           /\ portHandler'.port = portHandler.port ]_vars

\* C13 witness: the instructions were printed on an open transport with bytes
\* waiting in its receive queue.
C13_Witness ==
    /\ portHandler.last.op = "printCANConfInstructions"
    /\ portHandler.port.is_open
    /\ portHandler.chan.rx # <<>>
    /\ portHandler.last.io = <<>>
    /\ Len(portHandler.last.out) > 0

\* How many times the last call tried to claim the device.
ClaimAttempts(w) ==
    Cardinality({ i \in 1..Len(w.last.io) : w.last.io[i].call = "Serial" })

\* C14: a setupPort tries to claim the device once; when that attempt fails it
\* returns the failure without trying again.
C14_NoRetry ==
    portHandler.last.op = "setupPort"
    => /\ ClaimAttempts(portHandler) = 1
       /\ ClaimFailed(portHandler)
          => /\ portHandler.last.status = "return"
             /\ portHandler.last.value = FALSE
             /\ portHandler.chan.allocated = portHandler.last.pre_allocated

\* C14 witness: a device that could not be claimed was tried once, and the
\* failure returned.
C14_Witness ==
    /\ ClaimFailed(portHandler)
    /\ ClaimAttempts(portHandler) = 1
    /\ portHandler.last.value = FALSE

\* C15: when setupPort returns, it returns True exactly when the transport is
\* open, whichever step of the setup failed.
C15_SuccessFlagAgreesWithState ==
    (portHandler.last.op = "setupPort" /\ portHandler.last.status = "return")
    => (portHandler.last.value = TRUE <=> portHandler.port.is_open)

\* C16: the transport holds exactly one open handle, the one in self.ser, when
\* its open flag is set and no open handle when it is not; two handles are
\* never open at once.
C16_OneHandleIffOpen ==
    /\ Cardinality(portHandler.chan.open) <= 1
    /\ portHandler.port.is_open => portHandler.chan.open = {portHandler.port.ser}
    /\ ~portHandler.port.is_open => portHandler.chan.open = {}

\* C16 witness: a transport that was open has been set up again and holds the
\* new handle alone.
C16_Witness ==
    /\ portHandler.last.op = "setupPort"
    /\ portHandler.last.pre_is_open
    /\ portHandler.last.pre_open = {portHandler.last.pre_ser}
    /\ portHandler.port.is_open
    /\ portHandler.port.ser # portHandler.last.pre_ser
    /\ portHandler.chan.open = {portHandler.port.ser}

====
